---- MODULE Spec2Model ----
(***************************************************************************)
(* peerbook: the connection/session manager (Peer, newPeer, serveWs,       *)
(* readPump, writePump, sendStatus in src/main.go) and the Hub that owns   *)
(* the fingerprint -> Peer registry.                                       *)
(*                                                                         *)
(* The Hub's event loop (Hub.run) is not part of the sources at hand: only *)
(* the construction of its three channels is (src/main.go:667-671,         *)
(* src/unnamed/part_000:183-188).  Its handlers are written from section   *)
(* 4.3 of the specification; status pushes use Peer.sendStatus.            *)
(*                                                                         *)
(* The identity store (redis) is an external collaborator: EXISTS and      *)
(* HGETALL + ScanStruct are taken to return the persisted record of the    *)
(* key, as the adapter contract of section 6 of the specification says.    *)
(***************************************************************************)
EXTENDS Naturals, Sequences, FiniteSets, TLC

(* ------------------------------ bounds -------------------------------- *)

\* Connections accepted by serveWs in one run.
MaxSessions == 2

\* Client frames read by all read tasks together in one run.
MaxFrames == 2

\* Client frames read in one run in which a client sends a burst of
\* requests: enough for the replies to fill an outbound queue.
MaxBurst == 9

(* ------------------------- program constants -------------------------- *)

\* make(chan interface{}, 8): capacity of Peer.send.
SendCap == 8

\* make(chan map[string]interface{}, 16): capacity of hub.requests.
RequestsCap == 16

(* ------------------------- the identity store ------------------------- *)

\* A PeerDoc value.
PeerDoc(user, fp, name, kind) ==
    [user |-> user, fingerprint |-> fp, name |-> name, kind |-> kind]

\* The fingerprints with a persisted record, and one without.
KnownFP == {"fa", "fb", "fc"}

UnknownFP == "fx"

\* The persisted records: fa and fb belong to u1, fc to u2.
DB(fp) ==
    CASE fp = "fa" -> PeerDoc("u1", "fa", "na", "k1")
      [] fp = "fb" -> PeerDoc("u1", "fb", "nb", "k1")
      [] fp = "fc" -> PeerDoc("u2", "fc", "nc", "k1")

\* redis EXISTS peer:<fp>
Exists(fp) == fp \in KnownFP

\* The connection parameters a client may present: for every known
\* fingerprint the matching claim and one claim per differing field, a claim
\* for the unknown fingerprint, and a request without fingerprint.
Query(fp, user, name, kind) ==
    [fingerprint |-> fp, user |-> user, name |-> name, kind |-> kind]

Queries ==
    UNION { { Query(fp, DB(fp).user, DB(fp).name, DB(fp).kind),
              Query(fp, "ux", DB(fp).name, DB(fp).kind),
              Query(fp, DB(fp).user, "nx", DB(fp).kind),
              Query(fp, DB(fp).user, DB(fp).name, "kx") } : fp \in KnownFP }
    \cup { Query(UnknownFP, "u1", "na", "k1"), Query("", "u1", "na", "k1"),
            Query("fa", "", "", "") }

\* One claim for each kind of session: the three known fingerprints with
\* matching claims, fa and fc with a changed name, the unknown fingerprint.
CoreQueries ==
    { Query(fp, DB(fp).user, DB(fp).name, DB(fp).kind) : fp \in KnownFP }
    \cup { Query("fa", "u1", "nx", "k1"), Query("fc", "u2", "nx", "k1"),
           Query(UnknownFP, "u1", "na", "k1") }

\* How the two redis commands of a handshake end: both succeed, EXISTS
\* fails, HGETALL fails, or the reply of HGETALL cannot be scanned.
StoreOutcomes == {"ok", "exists_err", "hgetall_err", "scan_err"}

(* ------------------------------ frames -------------------------------- *)

\* A JSON object is a function from its keys to strings; the nil map and
\* the empty object have no keys.
NilMap == <<>>

\* The frames a client may send: a plain request, and a request without
\* msg that carries its own source_fp and source_name.
ClientFrames ==
    { [target |-> "fb", msg |-> "hi"],
      [target |-> "fb", source_fp |-> "fz", source_name |-> "nz"] }

\* json.Decoder.Decode into a map: a nil map is allocated, a non-nil map is
\* reused and keeps the entries the object does not name.
DecodeInto(m, obj) ==
    [k \in (DOMAIN m) \cup (DOMAIN obj) |->
        IF k \in DOMAIN obj THEN obj[k] ELSE m[k]]

\* message["source_fp"] = ...; message["source_name"] = ...
SetSource(m, fp, name) ==
    [k \in (DOMAIN m) \cup {"source_fp", "source_name"} |->
        CASE k = "source_fp" -> fp
          [] k = "source_name" -> name
          [] OTHER -> m[k]]

\* StatusMessage{code, err.Error()}
StatusMessage(code, description) ==
    [status_code |-> code, description |-> description]

\* json.Marshal of a queued value, as WriteJSON encodes it: a map is
\* written with all its keys; of a struct only the exported fields are
\* written, and StatusMessage (status_code, description) has none, so it is
\* written as the empty object.
IsStatusMessage(v) == DOMAIN v = {"status_code", "description"}

EncodeJSON(v) == IF IsStatusMessage(v) THEN NilMap ELSE v

(* ------------------------------- state -------------------------------- *)

VARIABLES
    peers,      \* the Peer objects created so far, in creation order
    registry,   \* hub.peers: fingerprint -> index of the Peer, 0 for none
    requests,   \* hub.requests: the buffered channel of request maps
    hubCur,     \* the request the Hub has received and is routing, if any
    crashed,    \* an unrecovered panic has ended the process
    nframes,    \* client frames read so far
    hs,         \* history: the last handshake, its claims and its outcome
    verifyDB,   \* the persisted peer records: fingerprint -> record, if any
    vlast,      \* history: the last /verify request and its answer
    mainpc,     \* where main is: "serving" (at <-stop), "wait", "exited"
    wg,         \* the counter of the WaitGroup httpServerExitDone
    srv         \* the HTTP server: "listening", "shutdown", "done"

\* The state of the HTTP side of the process: the /verify and /pb/ handlers
\* and main's shutdown.
service == <<verifyDB, vlast, mainpc, wg, srv>>

vars == <<peers, registry, requests, hubCur, crashed, nframes, hs, service>>

\* The fingerprints that clients claim through /verify.
VerifyFP == {"fa", "fb"}

Sessions == 1..Len(peers)

\* The keys hub.peers may hold: Peer.pd.fingerprint of a registered Peer.
AllFP == KnownFP \cup {UnknownFP, ""}

Init ==
    /\ peers = <<>>
    /\ registry = [fp \in AllFP |-> 0]
    /\ requests = <<>>
    /\ hubCur = <<>>
    /\ crashed = FALSE
    /\ nframes = 0
    /\ hs = <<>>
    /\ verifyDB = [fp \in VerifyFP |-> <<>>]
    /\ vlast = <<>>
    /\ mainpc = "serving"
    /\ wg = 1
    /\ srv = "listening"

(* ----------------------------- handshake ------------------------------ *)

\* The nil *PeerDoc and a pointer to a PeerDoc.
NilDoc == <<>>

Ref(doc) == <<doc>>

\* The zero PeerDoc: var pd PeerDoc.
ZeroDoc == PeerDoc("", "", "", "")

\* redis.ScanStruct(values, &pd): the fields of the reply; a nil reply holds
\* no field and leaves pd as it was declared.
ScanStruct(values) == IF values = <<>> THEN ZeroDoc ELSE values[1]

\* Peer{hub: hub, send: make(chan interface{}, 8), authenticated: false},
\* before Upgrade and before either task runs.
NewPeerValue ==
    [ authenticated |-> FALSE,
      pd            |-> NilDoc,
      send          |-> <<>>,      \* the frames buffered in Peer.send
      sendClosed    |-> FALSE,     \* close(Peer.send) has happened
      message       |-> NilMap,    \* readPump's map variable
      frame         |-> NilMap,    \* history: the client frame read and
                                   \* not yet forwarded
      rp            |-> "run",     \* where readPump is ("expired": in
                                   \* ReadJSON with the read deadline passed)
      wp            |-> "run",     \* where writePump is
      panicking     |-> FALSE,     \* readPump is unwinding a panic
      registered    |-> FALSE,     \* its registration event was accepted
      evicted       |-> FALSE,     \* history: a later registration took
                                   \* its registry entry
      writeFailed   |-> FALSE,     \* history: a WriteJSON of it has failed
      unregs        |-> 0,         \* unregistration events the Hub accepted
      wsCloses      |-> 0 ]        \* calls of ws.Close()

\* newPeer(hub, q) under the given outcome of the store commands: the pair
\* (peer, err), peer = <<>> standing for nil and err = "" for nil.
newPeer(q, store) ==
    LET fp == q.fingerprint
        values == IF store = "hgetall_err" THEN <<>> ELSE <<DB(fp)>>
        pd == ScanStruct(values)
        peer == NewPeerValue
    IN  IF fp = ""
          THEN [peer |-> <<>>, err |-> "MissingFingerprint"]
        ELSE IF store = "exists_err"
          THEN [peer |-> <<>>, err |-> "StoreFailure"]
        ELSE IF ~Exists(fp)
          THEN [peer |-> <<peer>>, err |-> "PeerNotFound"]
        ELSE IF store = "scan_err"
          THEN [peer |-> <<>>, err |-> "StoreFailure"]
        ELSE IF pd.name # q.name \/ pd.user # q.user \/ pd.kind # q.kind
          THEN [peer |-> <<[peer EXCEPT !.pd = Ref(pd)]>>,
                err |-> "PeerChanged"]
        ELSE [peer |-> <<[peer EXCEPT !.pd = Ref(pd),
                                     !.authenticated = TRUE]>>,
              err |-> ""]

\* p.send <- msg on an open channel with room.
ChanSend(p, msg) == [p EXCEPT !.send = Append(@, msg)]

\* sendStatus that builds the message and never sends it.
sendStatusLost(p, code, err) == p

\* sendStatus that closes the channel after the send.
sendStatusClosing(p, code, err) ==
    [ChanSend(p, StatusMessage(code, err)) EXCEPT !.sendClosed = TRUE]

\* Peer.sendStatus(code, err) on an open channel with room: the send
\* blocks on a full channel and panics on a closed one.
sendStatus(p, code, err) == ChanSend(p, StatusMessage(code, err))

\* serveWs: the handshake of one connection.  A nil peer is answered with
\* 400 and nothing else happens; otherwise a 401 status is queued for
\* PeerNotFound and PeerChanged, the socket is upgraded and both tasks are
\* started.
serveWs(q, store) ==
    LET r == newPeer(q, store)
    IN  /\ ~crashed
        /\ srv = "listening"
        /\ Len(peers) < MaxSessions
        /\ IF r.peer = <<>>
             THEN /\ hs' = <<[q |-> q, store |-> store, err |-> r.err, peer |-> 0]>>
                  /\ UNCHANGED peers
             ELSE /\ peers' = Append(peers,
                        IF r.err \in {"PeerNotFound", "PeerChanged"}
                          THEN sendStatus(r.peer[1], 401, r.err)
                          ELSE r.peer[1])
                  /\ hs' = <<[q |-> q, store |-> store, err |-> r.err,
                              peer |-> Len(peers) + 1]>>
        /\ UNCHANGED <<registry, requests, hubCur, crashed, nframes, service>>

(* ------------------------------ readPump ------------------------------ *)

Update(s, p) == [peers EXCEPT ![s] = p]

\* The read deadline of s passes without a pong having refreshed it.
DeadlineExpires(s) ==
    /\ ~crashed
    /\ peers[s].rp = "run"
    /\ peers' = Update(s, [peers[s] EXCEPT !.rp = "expired"])
    /\ UNCHANGED <<registry, requests, hubCur, crashed, nframes, hs, service>>

\* p.ws.ReadJSON(&message) returns a frame: the object is decoded into the
\* map readPump declared before its loop.
ReadFrame(s, f, max) ==
    /\ ~crashed
    /\ peers[s].rp = "run"
    /\ peers[s].wsCloses = 0
    /\ nframes < max
    /\ nframes' = nframes + 1
    /\ peers' = Update(s, [peers[s] EXCEPT
                              !.message = DecodeInto(@, f),
                              !.frame = f,
                              !.rp = "inject"])
    /\ UNCHANGED <<registry, requests, hubCur, crashed, hs, service>>

ReadJSON(s, f) == ReadFrame(s, f, MaxFrames)

\* ReadJSON in a burst of plain requests.
ReadBurst(s) == ReadFrame(s, [target |-> "fb", msg |-> "hi"], MaxBurst)

\* p.ws.ReadJSON(&message) returns an error (deadline, remote close, a
\* malformed or oversized frame, the socket closed by writePump): the loop
\* is left and the deferred function starts.
ReadError(s) ==
    /\ ~crashed
    /\ peers[s].rp \in {"run", "expired"}
    /\ peers' = Update(s, [peers[s] EXCEPT !.rp = "unreg"])
    /\ UNCHANGED <<registry, requests, hubCur, crashed, nframes, hs, service>>

\* The request readPump puts on hub.requests: the map itself (a Go map is
\* a reference, so the entry names the map of session s), with the client
\* frame it was read from as history.
Request(s) == [src |-> s, frame |-> peers[s].frame]

\* message["source_fp"] = p.pd.fingerprint; message["source_name"] =
\* p.pd.name; p.hub.requests <- message.  With a nil p.pd the first
\* statement panics and the deferred function runs.  The send blocks while
\* the channel is full.
Forward(s) ==
    /\ ~crashed
    /\ peers[s].rp = "inject"
    /\ IF peers[s].pd = NilDoc
         THEN /\ peers' = Update(s, [peers[s] EXCEPT !.rp = "unreg",
                                                      !.frame = NilMap,
                                                      !.panicking = TRUE])
              /\ UNCHANGED requests
         ELSE /\ Len(requests) < RequestsCap
              /\ peers' = Update(s, [peers[s] EXCEPT
                                 !.message = SetSource(@,
                                     peers[s].pd[1].fingerprint,
                                     peers[s].pd[1].name),
                                 !.frame = NilMap,
                                 !.rp = "run"])
              /\ requests' = Append(requests, Request(s))
    /\ UNCHANGED <<registry, hubCur, crashed, nframes, hs, service>>

\* p.ws.Close() at the end of readPump's deferred function; a panic that
\* was unwinding then ends the process.
ReadClose(s) ==
    /\ ~crashed
    /\ peers[s].rp = "closing"
    /\ peers' = Update(s, [peers[s] EXCEPT !.rp = "done",
                                           !.wsCloses = @ + 1])
    /\ crashed' = peers[s].panicking
    /\ UNCHANGED <<registry, requests, hubCur, nframes, hs, service>>

(* ------------------------------ writePump ----------------------------- *)

\* case message, ok := <-p.send with ok: the frame is written with
\* WriteJSON and the loop goes on.
WriteJSON(s) ==
    /\ ~crashed
    /\ peers[s].wp = "run"
    /\ peers[s].send # <<>>
    /\ peers' = Update(s, [peers[s] EXCEPT !.send = Tail(@)])
    /\ UNCHANGED <<registry, requests, hubCur, crashed, nframes, hs, service>>

\* case message, ok := <-p.send with ok, and WriteJSON returns an error:
\* the frame is lost, a warning is logged and the loop goes on (continue).
WriteJSONFails(s) ==
    /\ ~crashed
    /\ peers[s].wp = "run"
    /\ peers[s].send # <<>>
    /\ peers' = Update(s, [peers[s] EXCEPT !.send = Tail(@),
                                           !.writeFailed = TRUE])
    /\ UNCHANGED <<registry, requests, hubCur, crashed, nframes, hs, service>>

\* The frame a WriteJSON step of s puts on the socket.
Written(s) == EncodeJSON(Head(peers[s].send))

\* case message, ok := <-p.send with !ok (closed and drained): a close
\* frame is written, writePump returns and its deferred function closes
\* the socket.
WriteCloseMessage(s) ==
    /\ ~crashed
    /\ peers[s].wp = "run"
    /\ peers[s].send = <<>>
    /\ peers[s].sendClosed
    /\ peers' = Update(s, [peers[s] EXCEPT !.wp = "closed",
                                           !.wsCloses = @ + 1])
    /\ UNCHANGED <<registry, requests, hubCur, crashed, nframes, hs, service>>

\* case <-ticker.C with a failing ping: writePump returns and its deferred
\* function closes the socket.
PingFails(s) ==
    /\ ~crashed
    /\ peers[s].wp = "run"
    /\ peers' = Update(s, [peers[s] EXCEPT !.wp = "pingfail",
                                           !.wsCloses = @ + 1])
    /\ UNCHANGED <<registry, requests, hubCur, crashed, nframes, hs, service>>

(* -------------------------------- Hub --------------------------------- *)

\* The registry key of a Peer: p.pd.fingerprint.
Fingerprint(p) == p.pd[1].fingerprint

\* close(p.send)
CloseSend(p) == [p EXCEPT !.sendClosed = TRUE]

\* Register that leaves the queue of the session it replaces open.
RegisterNoClose(s) ==
    /\ registry' = [registry EXCEPT ![peers[s].pd[1].fingerprint] = s]
    /\ peers' = Update(s, [peers[s] EXCEPT !.registered = TRUE])

\* Register that keeps the session already in the registry and closes the
\* queue of the newcomer.
RegisterFirstWins(s) ==
    LET old == registry[peers[s].pd[1].fingerprint]
    IN  IF old \in {0, s}
          THEN /\ registry' = [registry EXCEPT ![peers[s].pd[1].fingerprint] = s]
               /\ peers' = Update(s, [peers[s] EXCEPT !.registered = TRUE])
          ELSE /\ registry' = registry
               /\ peers' = Update(s, [peers[s] EXCEPT !.registered = TRUE,
                                                      !.sendClosed = TRUE])

\* Register(session): the session takes the registry entry of its
\* fingerprint; a different session that held the entry is evicted, its
\* queue closed.
Register(s) ==
    LET fp == Fingerprint(peers[s])
        old == registry[fp]
    IN  /\ registry' = [registry EXCEPT ![fp] = s]
        /\ peers' = [i \in Sessions |->
                       IF i = s THEN [peers[i] EXCEPT !.registered = TRUE]
                       ELSE IF i = old
                         THEN [CloseSend(peers[i]) EXCEPT !.evicted = TRUE]
                       ELSE peers[i]]

\* case peer := <-h.register: a registration event is accepted.  Only an
\* authenticated session is handed to the Hub, once.
HubRegister(s) ==
    /\ ~crashed
    /\ hubCur = <<>>
    /\ peers[s].authenticated
    /\ ~peers[s].registered
    /\ Register(s)
    /\ UNCHANGED <<requests, hubCur, crashed, nframes, hs, service>>

\* The registry entry that points at session s, if there is one.
EntryOf(s) == {fp \in AllFP : registry[fp] = s}

\* Unregister that removes whatever entry the session's fingerprint has
\* and closes the queue of the session it finds there.
UnregisterByFingerprint(s) ==
    LET fp == IF peers[s].pd = NilDoc THEN "" ELSE peers[s].pd[1].fingerprint
        cur == registry[fp]
    IN  /\ registry' = [registry EXCEPT ![fp] = 0]
        /\ peers' = [i \in Sessions |->
                       LET q == IF i = cur THEN [peers[i] EXCEPT !.sendClosed = TRUE]
                                ELSE peers[i]
                       IN  IF i = s THEN [q EXCEPT !.rp = "closing",
                                                   !.unregs = @ + 1]
                           ELSE q]

\* Unregister(session): the entry is removed only if it points at this very
\* session, and then the session's queue is closed.
Unregister(s) ==
    /\ registry' = [fp \in AllFP |-> IF registry[fp] = s THEN 0 ELSE registry[fp]]
    /\ peers' = Update(s, [(IF EntryOf(s) # {} THEN CloseSend(peers[s])
                                               ELSE peers[s])
                             EXCEPT !.rp = "closing", !.unregs = @ + 1])

\* case peer := <-h.unregister: the rendezvous with readPump's deferred
\* p.hub.unregister <- p, after which readPump goes on to close the socket.
HubUnregister(s) ==
    /\ ~crashed
    /\ hubCur = <<>>
    /\ peers[s].rp = "unreg"
    /\ Unregister(s)
    /\ UNCHANGED <<requests, hubCur, crashed, nframes, hs, service>>

\* case message := <-h.requests: the Hub takes the next request.
HubReceive ==
    /\ ~crashed
    /\ hubCur = <<>>
    /\ requests # <<>>
    /\ hubCur' = <<Head(requests)>>
    /\ requests' = Tail(requests)
    /\ UNCHANGED <<peers, registry, crashed, nframes, hs, service>>

\* A resolution that checks the authentication of the source first.
ResolveAuthFirst(src, m) ==
    LET t == registry[m.target]
    IN  IF ~peers[src].authenticated THEN "UnauthorizedPeer"
        ELSE IF t = 0 THEN "TargetNotFound"
        ELSE IF peers[t].pd[1].user # peers[src].pd[1].user THEN "PeerIsForeign"
        ELSE "Deliver"

\* The resolution algorithm of Route, in order, for the request map m of
\* source session src.
Resolve(src, m) ==
    LET t == registry[m.target]
    IN  IF t = 0 THEN "TargetNotFound"
        ELSE IF peers[t].pd[1].user # peers[src].pd[1].user THEN "PeerIsForeign"
        ELSE IF ~peers[src].authenticated THEN "UnauthorizedPeer"
        ELSE "Deliver"

\* Route(message): the request is resolved against the map as it is now.
\* A resolved request is appended to the target's queue, or dropped when
\* that queue is full; an error is pushed to the source with sendStatus,
\* which blocks the Hub while the source's queue is full and panics when
\* it is closed.
HubRoute ==
    /\ ~crashed
    /\ hubCur # <<>>
    /\ LET src == hubCur[1].src
           m == peers[src].message
           v == Resolve(src, m)
           t == registry[m.target]
           full(i) == Len(peers[i].send) >= SendCap
       IN  /\ IF v = "Deliver"
                THEN /\ peers' = IF full(t) THEN peers
                                  ELSE Update(t, ChanSend(peers[t], m))
                     /\ UNCHANGED crashed
                ELSE IF peers[src].sendClosed
                  THEN /\ crashed' = TRUE
                       /\ UNCHANGED peers
                  ELSE /\ ~full(src)
                       /\ peers' = Update(src, sendStatus(peers[src], 401, v))
                       /\ UNCHANGED crashed
    /\ hubCur' = <<>>
    /\ UNCHANGED <<registry, requests, nframes, hs, service>>

(* ---------------------------- specification --------------------------- *)

\* The steps of the tasks of the sessions and of the Hub.
Tasks ==
    \/ \E s \in Sessions : DeadlineExpires(s)
    \/ \E s \in Sessions, f \in ClientFrames : ReadJSON(s, f)
    \/ \E s \in Sessions : ReadError(s)
    \/ \E s \in Sessions : Forward(s)
    \/ \E s \in Sessions : ReadClose(s)
    \/ \E s \in Sessions : WriteJSON(s)
    \/ \E s \in Sessions : WriteCloseMessage(s)
    \/ \E s \in Sessions : PingFails(s)
    \/ \E s \in Sessions : HubRegister(s)
    \/ \E s \in Sessions : HubUnregister(s)
    \/ HubReceive
    \/ HubRoute

\* The program with clients that connect with the claims of CoreQueries
\* while the store answers.
Next ==
    \/ \E q \in CoreQueries : serveWs(q, "ok")
    \/ Tasks

Spec == Init /\ [][Next]_vars

\* The two tasks of every session with a socket on which writes may fail;
\* the Hub accepts registrations and unregistrations and no client sends a
\* request.
SessionNext ==
    \/ \E q \in CoreQueries : serveWs(q, "ok")
    \/ \E s \in Sessions : DeadlineExpires(s)
    \/ \E s \in Sessions : ReadError(s)
    \/ \E s \in Sessions : ReadClose(s)
    \/ \E s \in Sessions : WriteJSON(s)
    \/ \E s \in Sessions : WriteJSONFails(s)
    \/ \E s \in Sessions : WriteCloseMessage(s)
    \/ \E s \in Sessions : PingFails(s)
    \/ \E s \in Sessions : HubRegister(s)
    \/ \E s \in Sessions : HubUnregister(s)

SessionSpec == Init /\ [][SessionNext]_vars

\* One client whose claimed name has changed sends a burst of requests
\* while its write task drains its queue, or has ended after a failed ping.
BurstNext ==
    \/ /\ peers = <<>>
       /\ serveWs(Query("fa", "u1", "nx", "k1"), "ok")
    \/ \E s \in Sessions : ReadBurst(s)
    \/ \E s \in Sessions : Forward(s)
    \/ \E s \in Sessions : ReadError(s)
    \/ \E s \in Sessions : ReadClose(s)
    \/ \E s \in Sessions : WriteJSON(s)
    \/ \E s \in Sessions : PingFails(s)
    \/ \E s \in Sessions : HubUnregister(s)
    \/ HubReceive
    \/ HubRoute

BurstSpec == Init /\ [][BurstNext]_vars

\* The handshakes alone, over every claim and every outcome of the store.
HandshakeNext == \E q \in Queries, store \in StoreOutcomes : serveWs(q, store)

HandshakeSpec == Init /\ [][HandshakeNext]_vars

(* ------------------------ /verify and /pb/<token> ----------------------- *)

\* The emails and device names of the /verify requests.
Emails == {"u1", "u2"}
Names == {"na", "nb"}

\* The decoded body of a /verify request: an absent fp or email reads as
\* "", and so does every field of a body that is not JSON.
VerifyRequests ==
    [fp : VerifyFP \cup {""}, email : Emails \cup {""}, name : Names,
     kind : {"k1"}]

\* What the store does during one /verify request: it answers, or
\* PeerExists, AddPeer or GetPeer returns an error.
VerifyOutcomes == {"ok", "exists_err", "add_err", "get_err"}

\* NewPeer: a record of the claimed identity, not verified.
NewPeer(fp, name, email, kind) ==
    [fp |-> fp, user |-> email, name |-> name, kind |-> kind,
     verified |-> FALSE]

\* db.AddPeer: the record is stored under its fingerprint.
AddPeer(store, peer) == [store EXCEPT ![peer.fp] = <<peer>>]

\* peer.setName: the name of the stored record is replaced.
setName(store, fp, name) ==
    [store EXCEPT ![fp] = <<[@[1] EXCEPT !.name = name]>>]

\* VerifyPeer: the verified flag of the stored record is set.
VerifyPeer(store, fp, v) ==
    [store EXCEPT ![fp] = <<[@[1] EXCEPT !.verified = v]>>]

\* The answer of serveVerify: the store it leaves, the status code of the
\* response and whether sendAuthEmail was called.
Answer(store, code, mailed) ==
    [db |-> store, code |-> code, mailed |-> mailed]

\* The end of a successful claim of the record peer, stored in store: the
\* name is updated if it differs and an unverified peer is mailed.
Claimed(peer, req, store) ==
    Answer(IF peer.name # req.name THEN setName(store, req.fp, req.name)
                                   ELSE store,
           200, ~peer.verified)

\* A record of the request's claims replaces the stored one.
Replaced(req, outcome) ==
    IF outcome = "add_err" THEN Answer(verifyDB, 500, FALSE)
    ELSE Claimed(NewPeer(req.fp, req.name, req.email, req.kind), req,
                 AddPeer(verifyDB,
                         NewPeer(req.fp, req.name, req.email, req.kind)))

\* A known fingerprint that is taken over whoever owns it.
KnownPeerTakeover(peer, req, outcome) == Replaced(req, outcome)

\* serveVerify on a fingerprint the store knows, peer being its record: an
\* ownerless record is replaced by a new one, a record of another user is a
\* conflict, and a record of the same user is claimed again.
KnownPeer(peer, req, outcome) ==
    IF peer.user = "" THEN Replaced(req, outcome)
    ELSE IF peer.user # req.email THEN Answer(verifyDB, 409, FALSE)
    ELSE Claimed(peer, req, verifyDB)

\* The answer of serveVerify to one request.
VerifyAnswer(req, method, outcome) ==
    IF req.fp = "" \/ req.email = ""
      THEN Answer(verifyDB, 400, FALSE)
    ELSE IF method # "POST" THEN Answer(verifyDB, 200, FALSE)
    ELSE IF outcome = "exists_err" THEN Answer(verifyDB, 500, FALSE)
    ELSE IF verifyDB[req.fp] = <<>>
      THEN IF outcome = "add_err" THEN Answer(verifyDB, 500, FALSE)
           ELSE Answer(AddPeer(verifyDB, NewPeer(req.fp, req.name,
                                                 req.email, req.kind)),
                       200, TRUE)
    ELSE IF outcome = "get_err" THEN Answer(verifyDB, 500, FALSE)
    ELSE KnownPeer(verifyDB[req.fp][1], req, outcome)

\* The handler of /verify.
serveVerify(req, method, outcome) ==
    /\ srv = "listening"
    /\ verifyDB' = VerifyAnswer(req, method, outcome).db
    /\ vlast' = <<[req |-> req, method |-> method, outcome |-> outcome,
                   code |-> VerifyAnswer(req, method, outcome).code,
                   mailed |-> VerifyAnswer(req, method, outcome).mailed,
                   before |-> IF req.fp = "" THEN <<>> ELSE verifyDB[req.fp]]>>
    /\ UNCHANGED <<peers, registry, requests, hubCur, crashed, nframes, hs,
                   mainpc, wg, srv>>

\* The handler of /pb/<token> on a POST of the user's form: every peer of
\* the user is verified if its fingerprint is checked in the form and
\* unverified if it is not.
serveAuthPage(user, checked) ==
    /\ srv = "listening"
    /\ \E fp \in VerifyFP : verifyDB[fp] # <<>> /\ verifyDB[fp][1].user = user
    /\ verifyDB' =
           [fp \in VerifyFP |->
               IF verifyDB[fp] # <<>> /\ verifyDB[fp][1].user = user
                 THEN VerifyPeer(verifyDB, fp, fp \in checked)[fp]
                 ELSE verifyDB[fp]]
    /\ UNCHANGED <<peers, registry, requests, hubCur, crashed, nframes, hs,
                   vlast, mainpc, wg, srv>>

\* The store at start: no record, or a record without an owner under fb.
VerifyInit ==
    /\ peers = <<>>
    /\ registry = [fp \in AllFP |-> 0]
    /\ requests = <<>>
    /\ hubCur = <<>>
    /\ crashed = FALSE
    /\ nframes = 0
    /\ hs = <<>>
    /\ verifyDB \in {[fp \in VerifyFP |-> <<>>]} \cup
                    {[fp \in VerifyFP |->
                         IF fp = "fb"
                           THEN <<[NewPeer("fb", "na", "", "k1")
                                      EXCEPT !.verified = v]>>
                           ELSE <<>>] : v \in BOOLEAN}
    /\ vlast = <<>>
    /\ mainpc = "serving"
    /\ wg = 1
    /\ srv = "listening"

VerifyNext ==
    \/ \E req \in VerifyRequests, method \in {"POST", "GET"},
          outcome \in VerifyOutcomes : serveVerify(req, method, outcome)
    \/ \E user \in Emails, checked \in SUBSET VerifyFP :
          serveAuthPage(user, checked)

VerifySpec == VerifyInit /\ [][VerifyNext]_vars

(* ------------------------------ shutdown ------------------------------ *)

\* httpServerExitDone.Add(n) in main: 1 in main.go, 3 in the earlier main.
WaitGroupAdd == {1, 3}

\* The process has not exited.
Alive == mainpc # "exited"

\* main receives the interrupt from stop and calls srv.Shutdown, which
\* closes the listener and returns when no connection is active; a
\* connection that was upgraded to a websocket is hijacked and Shutdown
\* neither waits for it nor closes it.
Shutdown ==
    /\ mainpc = "serving"
    /\ srv = "listening"
    /\ mainpc' = "wait"
    /\ srv' = "shutdown"
    /\ UNCHANGED <<peers, registry, requests, hubCur, crashed, nframes, hs,
                   verifyDB, vlast, wg>>

\* The goroutine of startHTTPServer: ListenAndServe returns
\* ErrServerClosed and the deferred wg.Done() runs.
ServerDone ==
    /\ Alive
    /\ srv = "shutdown"
    /\ srv' = "done"
    /\ wg' = wg - 1
    /\ UNCHANGED <<peers, registry, requests, hubCur, crashed, nframes, hs,
                   verifyDB, vlast, mainpc>>

\* httpServerExitDone.Wait() returns when the counter is zero; main
\* returns and the process exits with every goroutine that still runs.
Exit ==
    /\ mainpc = "wait"
    /\ wg = 0
    /\ mainpc' = "exited"
    /\ UNCHANGED <<peers, registry, requests, hubCur, crashed, nframes, hs,
                   verifyDB, vlast, wg, srv>>

\* The process after construction in either main.
ShutdownInit ==
    /\ peers = <<>>
    /\ registry = [fp \in AllFP |-> 0]
    /\ requests = <<>>
    /\ hubCur = <<>>
    /\ crashed = FALSE
    /\ nframes = 0
    /\ hs = <<>>
    /\ verifyDB = [fp \in VerifyFP |-> <<>>]
    /\ vlast = <<>>
    /\ mainpc = "serving"
    /\ wg \in WaitGroupAdd
    /\ srv = "listening"

\* The sessions and the Hub's registrations while main serves, is
\* interrupted and waits; no client sends a request.
ShutdownNext ==
    \/ \E q \in CoreQueries : serveWs(q, "ok")
    \/ Alive /\ \E s \in Sessions : DeadlineExpires(s)
    \/ Alive /\ \E s \in Sessions : ReadError(s)
    \/ Alive /\ \E s \in Sessions : ReadClose(s)
    \/ Alive /\ \E s \in Sessions : WriteJSON(s)
    \/ Alive /\ \E s \in Sessions : WriteCloseMessage(s)
    \/ Alive /\ \E s \in Sessions : PingFails(s)
    \/ Alive /\ \E s \in Sessions : HubRegister(s)
    \/ Alive /\ \E s \in Sessions : HubUnregister(s)
    \/ Shutdown
    \/ ServerDone
    \/ Exit

ShutdownSpec == ShutdownInit /\ [][ShutdownNext]_vars

(* ------------------------------- claims ------------------------------- *)

Range(q) == {q[i] : i \in 1..Len(q)}

\* The sessions that hold a registry entry.
InRegistry(s) == \E k \in AllFP : registry[k] = s

\* A step in which the Hub finishes routing the request it holds.
RouteStep == ~crashed /\ hubCur # <<>> /\ hubCur' = <<>>

\* The source session of the request being routed and its map.
RouteSrc == hubCur[1].src

RouteMap == peers[RouteSrc].message

\* A step in which the Hub accepts the registration of s, the
\* unregistration of s.
RegisterStep(s) == ~peers[s].registered /\ peers'[s].registered

UnregisterStep(s) == peers[s].rp = "unreg" /\ peers'[s].rp = "closing"

\* C1: the registry holds at most one session per fingerprint, and a session
\* that was registered and whose queue is still open is that one session.
C1_OnePerFingerprint ==
    /\ \A fp \in AllFP :
         Cardinality({s \in Sessions : /\ InRegistry(s)
                                       /\ Fingerprint(peers[s]) = fp}) <= 1
    /\ \A s \in Sessions :
         peers[s].registered /\ ~peers[s].sendClosed
             => registry[Fingerprint(peers[s])] = s

\* Two sessions of one fingerprint were registered: the first has lost the
\* entry and its queue, the second holds the entry with its queue open.
C1_Witness ==
    \E s1, s2 \in Sessions :
        /\ s1 # s2
        /\ peers[s1].registered /\ peers[s2].registered
        /\ Fingerprint(peers[s1]) = Fingerprint(peers[s2])
        /\ peers[s1].sendClosed /\ ~peers[s2].sendClosed
        /\ registry[Fingerprint(peers[s2])] = s2

\* C2: when the registration of S2 is accepted while S1 holds the entry of
\* the same fingerprint, S1's queue is closed and the entry names S2; from
\* then on S1's queue stays closed and no entry names S1, and every entry
\* names a session whose queue is open.
C2_SecondRegistrationEvicts ==
    [][ /\ \A s \in Sessions :
             RegisterStep(s) =>
                 LET fp == Fingerprint(peers[s])
                     old == registry[fp]
                 IN  /\ registry'[fp] = s
                     /\ old \notin {0, s} => /\ peers'[old].sendClosed
                                             /\ peers'[old].evicted
        /\ \A i \in Sessions :
             peers[i].evicted =>
                 /\ peers'[i].sendClosed
                 /\ \A k \in AllFP : registry'[k] # i
        /\ \A k \in AllFP :
             registry'[k] # 0 => ~peers'[registry'[k]].sendClosed
      ]_vars

\* S1 was evicted by S2, its write task found the queue closed, sent the
\* close frame and returned, and the entry names S2.
C2_Witness ==
    \E s1, s2 \in Sessions :
        /\ s1 # s2
        /\ peers[s1].evicted /\ peers[s1].sendClosed
        /\ peers[s1].wp = "closed"
        /\ peers[s2].registered
        /\ registry[Fingerprint(peers[s1])] = s2

\* C3: accepting the unregistration of a session changes no registry entry
\* that names another session and leaves the queue of that session as it
\* was; an entry changes only if it named the session being unregistered.
C3_UnregisterKeepsNewer ==
    [][ \A s \in Sessions :
          UnregisterStep(s) =>
              \A k \in AllFP :
                  /\ registry[k] # s => registry'[k] = registry[k]
                  /\ registry[k] \notin {0, s} =>
                         /\ ~peers'[registry[k]].sendClosed
                         /\ peers'[registry[k]] = peers[registry[k]]
                  /\ registry[k] = s => registry'[k] = 0
      ]_vars

\* S1 was evicted by the newer S2 and the Hub has since accepted S1's
\* unregistration: the entry still names S2 and S2's queue is open.
C3_Witness ==
    \E s1, s2 \in Sessions :
        /\ s1 # s2
        /\ peers[s1].evicted /\ peers[s1].unregs = 1
        /\ registry[Fingerprint(peers[s1])] = s2
        /\ ~peers[s2].sendClosed

\* The request being routed names a target whose persisted owner is not the
\* persisted owner of the source.
RouteForeign == DB(RouteMap.target).user # peers[RouteSrc].pd[1].user

\* The outcome of a routing step that refuses the request with err: no queue
\* but the source's changes, and the source's queue gets the status frame
\* (a closed queue gets nothing).
Refused(err) ==
    /\ \A i \in Sessions \ {RouteSrc} : peers'[i].send = peers[i].send
    /\ peers'[RouteSrc].send =
           IF peers[RouteSrc].sendClosed THEN peers[RouteSrc].send
           ELSE Append(peers[RouteSrc].send, StatusMessage(401, err))

ClaimsDiffer(q) ==
    /\ Exists(q.fingerprint)
    /\ \/ q.name # DB(q.fingerprint).name
       \/ q.user # DB(q.fingerprint).user
       \/ q.kind # DB(q.fingerprint).kind

\* C6 as claimed: a session created with claims that differ from the
\* persisted record is not authenticated and never becomes so; every
\* request of an unauthenticated session is refused with UnauthorizedPeer
\* and reaches no other queue.
C6_ChangedNeverRoutes ==
    [][ /\ hs' # <<>> /\ hs'[1].peer # 0 /\ ClaimsDiffer(hs'[1].q)
            => ~peers'[hs'[1].peer].authenticated
        /\ \A s \in Sessions :
             peers'[s].authenticated = peers[s].authenticated
        /\ RouteStep /\ ~peers[RouteSrc].authenticated
            => Refused("UnauthorizedPeer")
      ]_vars

\* C7 as claimed, for a request whose map has not been written since it was
\* forwarded (no later frame of the source is read or waiting): what is
\* appended to the target's queue is the client frame with source_fp and
\* source_name set to the source's.
C7_DeliveredIsFrame ==
    [][ /\ RouteStep
        /\ Resolve(RouteSrc, RouteMap) = "Deliver"
        /\ peers[RouteSrc].rp # "inject"
        /\ \A i \in 1..Len(requests) : requests[i].src # RouteSrc
        => LET t == registry[RouteMap.target]
           IN  peers'[t].send =
                   Append(peers[t].send,
                          SetSource(hubCur[1].frame,
                                    Fingerprint(peers[RouteSrc]),
                                    peers[RouteSrc].pd[1].name))
      ]_vars

\* C8 as claimed: the request the Hub routes carries the fingerprint and the
\* name of the session that forwarded it.
C8_SourceIsTrusted ==
    [][ RouteStep =>
            /\ RouteMap.source_fp = Fingerprint(peers[RouteSrc])
            /\ RouteMap.source_name = peers[RouteSrc].pd[1].name
      ]_vars

\* C9 as claimed, in the form a finite run refutes: a read task whose
\* deadline has passed can take its next step up to its end (the Hub, if it
\* holds a request, can finish routing it first), and a read task that has
\* ended has had exactly one unregistration accepted.
C9_ReadTaskEnds ==
    \A s \in Sessions :
        /\ peers[s].rp = "expired" => ENABLED ReadError(s)
        /\ peers[s].rp = "unreg" =>
               (ENABLED HubUnregister(s)) \/ (ENABLED HubRoute)
        /\ peers[s].rp = "closing" => ENABLED ReadClose(s)
        /\ peers[s].unregs <= 1
        /\ peers[s].rp = "done" => peers[s].unregs = 1

\* C10 as claimed: the outcome of the last handshake follows from its
\* claims and the persisted record; a session is authenticated only if its
\* claims equal the record, and is so whenever they do and the store
\* answered.
C10_Verdict ==
    hs # <<>> =>
        LET q == hs[1].q
            created == hs[1].peer # 0
            match == /\ Exists(q.fingerprint)
                     /\ q.name = DB(q.fingerprint).name
                     /\ q.user = DB(q.fingerprint).user
                     /\ q.kind = DB(q.fingerprint).kind
        IN  /\ q.fingerprint = "" =>
                ~created /\ hs[1].err = "MissingFingerprint"
            /\ created /\ ~Exists(q.fingerprint) =>
                /\ hs[1].err = "PeerNotFound"
                /\ ~peers[hs[1].peer].authenticated
            /\ created /\ ClaimsDiffer(q) =>
                /\ hs[1].err = "PeerChanged"
                /\ ~peers[hs[1].peer].authenticated
            /\ created /\ peers[hs[1].peer].authenticated => match
            /\ created /\ match /\ hs[1].store = "ok"
                => peers[hs[1].peer].authenticated

\* A step in which the write task of s takes the head of its queue and
\* writes it.
WriteStep(s) ==
    /\ s \in Sessions
    /\ peers[s].send # <<>>
    /\ peers'[s].send = Tail(peers[s].send)

\* The error a session's handshake ended in: the description of the status
\* frame serveWs queued for it.
HandshakeErr(s) ==
    IF peers[s].pd = NilDoc THEN "PeerNotFound"
    ELSE IF ~peers[s].authenticated THEN "PeerChanged"
    ELSE ""

\* C11 as claimed: a handshake that ends in PeerNotFound or PeerChanged
\* creates the session with the 401 status frame alone in its queue and
\* both tasks running, and the frame the write task puts on the socket for
\* it, the first of the connection, carries code 401 and the error.
C11_StatusFirst ==
    [][ /\ hs' # hs /\ hs'[1].err \in {"PeerNotFound", "PeerChanged"}
            => /\ hs'[1].peer = Len(peers) + 1
               /\ peers'[hs'[1].peer].send
                      = <<StatusMessage(401, hs'[1].err)>>
               /\ peers'[hs'[1].peer].rp = "run"
               /\ peers'[hs'[1].peer].wp = "run"
               /\ peers'[hs'[1].peer].wsCloses = 0
        /\ \A s \in Sessions :
             /\ WriteStep(s)
             /\ HandshakeErr(s) # ""
             /\ Head(peers[s].send) = StatusMessage(401, HandshakeErr(s))
             => Written(s) = StatusMessage(401, HandshakeErr(s))
      ]_vars

\* C12 as claimed: a failed write of a queued frame, and a failed ping, end
\* the write task and close the socket, and a write task that has ended
\* takes no further frame from the queue.
C12_SendFailureEnds ==
    [][ \A s \in Sessions :
          /\ peers'[s].writeFailed => peers'[s].wp # "run"
          /\ PingFails(s) \/ (peers'[s].writeFailed /\ ~peers[s].writeFailed)
                => peers'[s].wsCloses = peers[s].wsCloses + 1
          /\ peers[s].wp # "run" => /\ peers'[s].wp = peers[s].wp
                                     /\ ~WriteStep(s)
      ]_vars

\* C13 as claimed: the socket of a session is closed at most once, it is
\* closed only when both its tasks have ended, and it is closed once they
\* have.
C13_ClosedOnceAfterBoth ==
    \A s \in Sessions :
        LET bothEnded == peers[s].rp = "done" /\ peers[s].wp # "run"
        IN  /\ peers[s].wsCloses <= 1
            /\ peers[s].wsCloses >= 1 => bothEnded
            /\ bothEnded => peers[s].wsCloses = 1

\* The read task of s is in its loop.
Reading(s) == peers[s].rp \in {"run", "expired", "inject"}

\* C14 as claimed: the read task of a session leaves its loop only into the
\* unregistration path, where the Hub accepts exactly one unregistration
\* before the task closes the socket and ends for good; and no session is
\* ended in any other way: when the process stops, every read task has
\* gone through that path.
C14_ThroughUnregistration ==
    [][ \A s \in Sessions :
          /\ Reading(s) /\ ~Reading(s)' => peers'[s].rp = "unreg"
          /\ peers[s].rp = "unreg" /\ peers'[s].rp # "unreg"
                => /\ peers'[s].rp = "closing"
                   /\ peers'[s].unregs = peers[s].unregs + 1
          /\ peers[s].rp = "closing" /\ peers'[s].rp # "closing"
                => /\ peers'[s].rp = "done"
                   /\ peers'[s].unregs = 1
          /\ peers[s].rp = "done" => peers'[s].rp = "done"
          /\ peers'[s].unregs <= 1
          /\ crashed' => peers'[s].rp = "done"
      ]_vars

\* C15 as claimed: the Hub can always finish the request it holds, whatever
\* the state of the queues (a frame destined for a full queue is dropped),
\* and no queue ever holds more than its capacity.
C15_HubNeverBlocks ==
    /\ ~crashed /\ hubCur # <<>> => ENABLED HubRoute
    /\ \A s \in Sessions : Len(peers[s].send) <= SendCap

\* The outcome of a routing step that delivers the request to session t:
\* the map is appended to t's queue, or dropped when that queue is full,
\* and no other queue changes.
Delivered(t) ==
    /\ peers'[t].send = IF Len(peers[t].send) >= SendCap THEN peers[t].send
                         ELSE Append(peers[t].send, RouteMap)
    /\ \A i \in Sessions \ {t} : peers'[i].send = peers[i].send

C17_EventOrder ==
    [][ /\ \A s \in Sessions :
             UnregisterStep(s) =>
                 \A i \in 1..Len(requests) : requests[i].src # s
        /\ Len(requests') <= RequestsCap
      ]_vars

\* C18 as claimed: an authenticated session holds the registry entry of
\* its fingerprint, or has held it, when the Hub routes a request it
\* forwarded and when the Hub applies its unregistration.
C18_RegisteredFirst ==
    [][ /\ RouteStep /\ peers[RouteSrc].authenticated
            => peers[RouteSrc].registered
        /\ \A s \in Sessions :
             UnregisterStep(s) /\ peers[s].authenticated
                 => peers[s].registered
      ]_vars

\* C19: a session that is not authenticated (PeerNotFound, PeerChanged)
\* holds no registry entry and is never the target of a delivery; its
\* handshake and its unregistration leave the registry and every other
\* session as they were.
C19_UnauthenticatedOutside ==
    [][ /\ \A s \in Sessions :
             ~peers[s].authenticated =>
                 /\ ~InRegistry(s)
                 /\ ~peers[s].registered
                 /\ RouteStep /\ s # RouteSrc
                        => peers'[s].send = peers[s].send
                 /\ UnregisterStep(s) =>
                        /\ registry' = registry
                        /\ \A i \in Sessions \ {s} : peers'[i] = peers[i]
        /\ hs' # hs /\ hs'[1].err \in {"PeerNotFound", "PeerChanged"}
             => /\ registry' = registry
                /\ \A i \in Sessions : peers'[i] = peers[i]
      ]_vars

\* An authenticated session holds the entry of fa with its queue open
\* after a session that claimed fa with a changed name has connected and
\* has been unregistered.
C19_Witness ==
    \E s, t \in Sessions :
        /\ registry["fa"] = t
        /\ peers[t].authenticated /\ ~peers[t].sendClosed
        /\ ~peers[s].authenticated
        /\ peers[s].pd # NilDoc
        /\ peers[s].pd[1].fingerprint = "fa"
        /\ peers[s].unregs = 1

\* A store command of handshake h has failed: EXISTS, which is sent for
\* every fingerprint, or HGETALL and the scan of its reply, which follow
\* for a key that exists.
StoreFails(h) ==
    /\ h.q.fingerprint # ""
    /\ \/ h.store = "exists_err"
       \/ h.store \in {"hgetall_err", "scan_err"} /\ Exists(h.q.fingerprint)

\* C20 as claimed: a handshake in which a store command fails is answered
\* with the error and has no other effect: no session is created, and the
\* sessions and the registry are as before.
C20_StoreFailureRefuses ==
    [][ hs' # hs /\ StoreFails(hs'[1]) =>
            /\ hs'[1].peer = 0
            /\ hs'[1].err = "StoreFailure"
            /\ peers' = peers
            /\ registry' = registry
      ]_vars

\* The request claims, by a well-formed POST, a fingerprint whose record is
\* owned by a user that is not the request's email.
ClaimsForeign(req) ==
    /\ req.fp # "" /\ req.email # ""
    /\ verifyDB[req.fp] # <<>>
    /\ verifyDB[req.fp][1].user \notin {"", req.email}

\* A step of serveVerify: the request it answered is the one vlast holds
\* after the step.
VerifyStep ==
    /\ vlast' # <<>>
    /\ serveVerify(vlast'[1].req, vlast'[1].method, vlast'[1].outcome)

\* C21: a claim of a fingerprint owned by another, non-empty, user leaves
\* every record as it was and mails nobody, and is answered with a conflict
\* when the store answers its reads (with a server error when it does
\* not); and no /verify request of any outcome turns a verified flag on.
C21_ConflictNoEffect ==
    [][ VerifyStep =>
                /\ (vlast'[1].method = "POST" /\ ClaimsForeign(vlast'[1].req)) =>
                       /\ verifyDB' = verifyDB
                       /\ ~vlast'[1].mailed
                       /\ vlast'[1].code =
                              IF vlast'[1].outcome \in {"exists_err", "get_err"}
                                THEN 500 ELSE 409
                /\ \A fp \in VerifyFP :
                       (verifyDB'[fp] # <<>> /\ verifyDB'[fp][1].verified) =>
                           (verifyDB[fp] # <<>> /\ verifyDB[fp][1].verified)
      ]_vars

\* The last request was u2's claim of a fingerprint that is u1's and
\* verified: it was answered with a conflict, nobody was mailed and the
\* record is the one the request found.
C21_Witness ==
    /\ vlast # <<>>
    /\ vlast[1].method = "POST" /\ vlast[1].req.email = "u2"
    /\ vlast[1].req.name = "nb"
    /\ vlast[1].code = 409 /\ ~vlast[1].mailed
    /\ vlast[1].before # <<>>
    /\ vlast[1].before[1].user = "u1" /\ vlast[1].before[1].verified
    /\ vlast[1].before[1].name = "na"
    /\ verifyDB[vlast[1].req.fp] = vlast[1].before

\* A task of session s is running: its read task has not returned or its
\* write task has not.
TaskRunning(s) == peers[s].rp # "done" \/ peers[s].wp = "run"

\* C22: once interrupted the process accepts no connection; it does not
\* exit while a read or write task of a session runs; and when the server
\* and every task have finished, the wait is over (its counter is zero).
C22_WaitCountsTasks ==
    /\ mainpc # "serving" => srv # "listening"
    /\ mainpc = "exited" => \A s \in Sessions : ~TaskRunning(s)
    /\ (mainpc = "wait" /\ srv = "done"
          /\ \A s \in Sessions : ~TaskRunning(s)) => wg = 0

\* The queue on which the routing step sends: the target's when the
\* request is delivered, the source's when it is refused.
RouteQueue ==
    IF Resolve(RouteSrc, RouteMap) = "Deliver" THEN registry[RouteMap.target]
                                               ELSE RouteSrc

\* C23: the Hub closes no queue that is closed already (a registration
\* closes the queue of the session it evicts, an unregistration the queue of
\* a session that still has its entry, and the unregistration of an evicted
\* session closes nothing), and it sends on no queue that is closed.
C23_NoUseAfterClose ==
    [][ /\ \A s \in Sessions :
             RegisterStep(s) =>
                 LET old == registry[Fingerprint(peers[s])]
                 IN  old \notin {0, s} => ~peers[old].sendClosed
        /\ \A s \in Sessions :
             UnregisterStep(s) =>
                 /\ EntryOf(s) # {} => ~peers[s].sendClosed
                 /\ peers[s].evicted => /\ EntryOf(s) = {}
                                        /\ peers'[s].send = peers[s].send
        /\ RouteStep => ~peers[RouteQueue].sendClosed
      ]_vars

\* A request of session s is on the Hub's inbound queue or being routed.
Pending(s) ==
    \/ \E i \in 1..Len(requests) : requests[i].src = s
    \/ hubCur # <<>> /\ hubCur[1].src = s

\* C24: while a request of a session waits on the Hub's inbound queue or is
\* being routed, no step changes its content, the map the session sent.
C24_RequestImmutable ==
    [][ \A s \in Sessions :
            Pending(s) => peers'[s].message = peers[s].message ]_vars

\* C25: the read task of a session never faults: whatever the session's
\* record, a frame it reads leaves the task in its loop or in its normal
\* unregistration path, never unwinding a panic; and a frame of a session
\* without a record reaches no queue.
C25_NoFault ==
    \A s \in Sessions :
        /\ ~peers[s].panicking
        /\ peers[s].pd = NilDoc => ~Pending(s)

====
